---- MODULE Spec2Model ----
(***************************************************************************)
(* Event streaming core of the agent gateway.                              *)
(*                                                                         *)
(* Two session implementations read a per-thread event log:                *)
(*   variant = "list"   : stream_thread_events.stream_generator            *)
(*                        (gateway/controller/agent_thread_controller.py)  *)
(*                        over the Redis list written by                   *)
(*                        ClientMessageService.publish_to_thread, with two *)
(*                        pub/sub channels (new_response, control);        *)
(*   variant = "stream" : AgentEventStreamService.stream_sse_events        *)
(*                        (gateway/service/agent_event_stream_service.py)  *)
(*                        over a Redis stream (XRANGE / XREAD).            *)
(* More variants cover the code around the sessions:                       *)
(*   variant = "tools"    : the concurrent tool calls of Runner.run_job,    *)
(*                          each publishing with publish_to_thread;         *)
(*   variant = "registry" : AgentThreadService and the HTTP endpoints;      *)
(*   variant = "errors"   : the error translation of the stream endpoint;   *)
(*   variant = "decode"   : a list session over a stored log;               *)
(*   variant = "worker"   : the worker alone, with failing backend calls;   *)
(*   variant = "cleanup"  : the finally block of stream_generator;          *)
(*   variant = "listener" : a list session whose subscriptions can fail;    *)
(*   variant = "stamp"    : the timestamps publish_to_thread sets;          *)
(*   variant = "handoff"  : the reads of a stream session, replay to tail;  *)
(*   variant = "service"  : get_thread_service under concurrent requests;   *)
(*   variant = "race"     : execute_task and update_thread_status, by step. *)
(* Init picks the variant; the actions of the other variants stay disabled.*)
(***************************************************************************)
EXTENDS Integers, Sequences, FiniteSets, TLC

\* ------------------------------------------------------------------ bounds
\* new data events a run publishes before its FLOW_COMPLETION event (the complete
\* event of a tool call overwrites its init event and is not counted)
MaxEvents == 1
\* largest resume cursor a client sends (list index / stream ID)
MaxCursor == 1
\* Stream entries of the hand-off from replay to tail (more than stream_read_count)
MaxHandoffLen == 3
\* Concurrent requests that call get_thread_service
MaxRequests == 2

VARIABLES
    variant,                \* "list", "stream", "tools" or "registry"
    \* --- list+pubsub log (Redis) ---
    responses,              \* the list agent_run:<thread>:responses
    pubsub_response,        \* messages Redis delivered to the session's new_response subscription
    pubsub_control,         \* messages Redis delivered to the session's control subscription
    subscribed,             \* channels the session is subscribed to
    \* --- worker (Runner) ---
    w_pc,                   \* position of the worker
    w_outcome,              \* how the run_job task ended: "ok", "raised", "cancelled"
    w_published,            \* data events published by run_job so far
    next_uuid,              \* generate_uuid: next fresh UUID
    pub,                    \* the publish_to_thread call in progress
    \* --- session ---
    pc,                     \* position of the session generator
    last_id,                \* the resume cursor of the request: <<>> (absent) or <<c>>
    last_processed_index,
    message_queue,
    listen_control_done,    \* listen_control has returned
    control_signal,         \* the control signal the main loop dequeued ("" if none)
    frames,                 \* the frames yielded to the client, in order
    disconnected,           \* request.is_disconnected()
    log_len_at_subscribe,   \* length of the list when both subscriptions were in place
    \* --- stream variant ---
    stream,                 \* the Redis stream <prefix>.<flow>.<input>: entries in ID order
    listening_id,           \* current_id of the replay, then listening_id of the listener
    since_start,            \* now - TimeoutManager.connection_start_time
    since_business,         \* now - TimeoutManager.last_business_message_time
    poll_timer,             \* time left of the sleep of wait_for_stream_creation
    ka_timer,               \* time left of the sleep of _keep_alive_timer
    tc_timer,               \* time left of the sleep of _timeout_checker
    keep_alive_task,        \* state of the three subtasks of the tail
    timeout_checker_task,
    redis_listener_task,
    result,                 \* the exception stream_sse_events ended with ("" if none)
    \* --- concurrent tool calls of one run_job step (variant "tools") ---
    now,                    \* arrow.utcnow()
    tool_pc,                \* position of each tool call
    tool_pub,               \* the publish_to_thread call each tool call is in
    tool_returned,          \* the indices publish_to_thread returned to each tool call
    \* --- what the worker has done for the run (all variants with a worker) ---
    control_published,      \* the signals published on the control channel, in order
    notified,               \* PUBLISH calls made on the new_response channel
    save_result,            \* how the last save_task_agent_result call ended ("" if none)
    in_except,              \* handle_flow_completion is in its except BaseException branch
    \* --- error translation of the event-stream endpoint (variant "errors") ---
    caught_exception,       \* class of the exception the endpoint caught ("" if none)
    status_code,            \* status code of the HTTPException raised for it
    \* --- thread registry and its HTTP endpoints (variant "registry") ---
    thread_metadata,        \* thread:<id>:metadata records (None if absent)
    thread_runs,            \* thread:<id>:runs lists
    thread_run,             \* thread:<id>:run:<run_id> records
    celery_queue,           \* tasks sent to the work queue
    http,                   \* the last HTTP response
    \* --- the finally block of stream_generator (variant "cleanup") ---
    handles,                \* state of the session's two PubSub handles
    listener_task,          \* state of the session's listener task
    finally_state,          \* "open", "returned" or "raised"
    cleanup_failed,         \* the cleanup call that raised ("none" if none did)
    \* --- failing subscriptions of a list session (variant "listener") ---
    listen_failed,          \* the coroutines of listen_messages that have raised
    \* --- the timestamps publish_to_thread sets (variant "stamp") ---
    event,                  \* the AgentExecuteData object handed to publish_to_thread
    published_at,           \* arrow.utcnow() of the last publish of it (NoTime if none)
    \* --- the reads of a stream session over a stored stream (variant "handoff") ---
    fetch_log,              \* what fetch_messages has returned to the session, in order
    stored_at_connect,      \* length of the stream at the replay read (NoPos before it)
    \* --- the global thread service of the gateway (variant "service") ---
    thread_service,         \* the module global _thread_service
    request_pc,             \* position of each request in get_thread_service
    handed,                 \* what get_thread_service returned to each request
    \* --- execute_task and update_thread_status on one record (variant "race") ---
    exec_pc,                \* position of the execute_task call
    exec_metadata,          \* the metadata execute_task read
    upd_pc,                 \* position of the update_thread_status call
    upd_metadata,           \* the metadata update_thread_status read
    upd_status              \* the status update_thread_status was called with

listVars == <<responses, pubsub_response, pubsub_control, subscribed>>
workerVars == <<w_pc, w_outcome, w_published, next_uuid, pub>>
sessionVars == <<pc, last_id, last_processed_index, message_queue, listen_control_done,
                 control_signal, frames, disconnected, log_len_at_subscribe>>
streamVars == <<stream, listening_id, since_start, since_business, poll_timer, ka_timer,
                tc_timer, keep_alive_task, timeout_checker_task, redis_listener_task, result>>
toolVars == <<now, tool_pc, tool_pub, tool_returned>>
registryVars == <<thread_metadata, thread_runs, thread_run, celery_queue, http>>
errorVars == <<caught_exception, status_code>>
completionVars == <<control_published, notified, save_result, in_except>>
cleanupVars == <<handles, listener_task, finally_state, cleanup_failed>>
listenerVars == <<listen_failed>>
stampVars == <<event, published_at>>
handoffVars == <<fetch_log, stored_at_connect>>
serviceVars == <<thread_service, request_pc, handed>>
raceVars == <<exec_pc, exec_metadata, upd_pc, upd_metadata, upd_status>>
gatewayVars == <<cleanupVars, listenerVars, stampVars, handoffVars, serviceVars, raceVars>>
vars == <<variant, listVars, workerVars, sessionVars, streamVars, toolVars, registryVars,
          errorVars, completionVars, gatewayVars>>

\* ------------------------------------------------------------------ frames
NoPos == 0 - 1

Frame(kind, pos, val) == [kind |-> kind, pos |-> pos, val |-> val]

\* The frame history after yielding f. A keep_alive frame that follows a keep_alive
\* frame is not recorded again, so that an idle session has finitely many states.
Yield(fs, f) ==
    IF f.kind = "keep_alive" /\ f.pos = NoPos /\ fs # <<>> /\ fs[Len(fs)] = f
    THEN fs
    ELSE Append(fs, f)

RECURSIVE YieldAll(_, _)
YieldAll(fs, new) ==
    IF new = <<>> THEN fs ELSE YieldAll(Yield(fs, Head(new)), Tail(new))

\* ------------------------------------------------------- list variant: log
TerminalStates == {"complete", "error"}

\* message_data of publish_to_thread: the type is always task_agent_execute
message_data(data) ==
    [type |-> "task_agent_execute", uuid |-> data.uuid,
     current_state |-> data.current_state, execute_type |-> data.execute_type,
     create_at |-> data.create_at, ok |-> TRUE]

\* a stored string that json.loads cannot decode
Undecodable ==
    [type |-> "", uuid |-> 0, current_state |-> "", execute_type |-> "", create_at |-> 0,
     ok |-> FALSE]

\* [json.loads(r) for r in ...] returns: every string of the reply decodes
decodable(items) == \A k \in 1..Len(items) : items[k].entry.ok

FindUuidNotFound(list, uuid, idx) == 0 - 1

\* the scan of publish_to_thread for an entry with the same UUID: its index, or -1
RECURSIVE find_uuid(_, _, _)
find_uuid(list, uuid, idx) ==
    IF idx >= Len(list) THEN 0 - 1
    ELSE IF list[idx + 1].uuid = uuid THEN idx
    ELSE find_uuid(list, uuid, idx + 1)

\* redis.lrange(key, start, -1) for start >= 0, with the list indices of the entries
lrange_from(list, start) ==
    [k \in 1..(IF start >= Len(list) THEN 0 ELSE Len(list) - start) |->
        [idx |-> start + k - 1, entry |-> list[start + k]]]

\* Redis PUBLISH: the message reaches the connections subscribed at this moment
Deliver(buf, channel, msg) ==
    IF channel \in subscribed THEN Append(buf, msg) ELSE buf

\* entries of a log that is in Redis when a session connects
MaxStored == 2

\* the logs a session can find: events as publish_to_thread stores them, and at
\* most one string that does not decode
StoredLogs ==
    UNION {
        {[i \in 1..n |->
            IF i = bad THEN Undecodable
            ELSE message_data([uuid |-> i, current_state |-> "complete",
                               execute_type |-> "assistant_response", create_at |-> 0])] :
         bad \in 0..n} :
        n \in 1..MaxStored}

\* ------------------------------------------------------------ worker
\* the events run_job and the tools can publish next
DataEvents ==
    {[uuid |-> next_uuid, current_state |-> "complete", execute_type |-> "assistant_response"],
     [uuid |-> next_uuid, current_state |-> "init", execute_type |-> "tool"]}
    \cup
    {[uuid |-> responses[i].uuid, current_state |-> "complete", execute_type |-> "tool"] :
        i \in {j \in 1..Len(responses) : responses[j].current_state = "init"}}

NoPub == [uuid |-> 0, current_state |-> "", execute_type |-> "", create_at |-> 0,
          index |-> 0 - 1, then |-> ""]

\* publish_to_thread, first part: build message_data and scan the list for the UUID
publish_scan(data, then) ==
    pub' = [uuid |-> data.uuid, current_state |-> data.current_state,
            execute_type |-> data.execute_type, create_at |-> now,
            index |-> find_uuid(responses, data.uuid, 0), then |-> then]

\* the variants in which a worker runs: with a session ("list") or alone, with
\* failing calls to Redis and to the result store ("worker")
WorkerVariants == {"list", "worker"}

\* how a save_task_agent_result call can end
SaveResults == IF variant = "worker" THEN {"ok", "failed"} ELSE {"ok"}

AfterSaveRaises(saved) == IF saved = "failed" THEN "raised" ELSE "lset_rpush"

\* stream_and_save_response_thread after the save: except Exception logs the
\* failure, publish_to_thread is called in either case
after_save(saved) == "lset_rpush"

\* on_client_message (stream_and_save_response_thread): save_task_agent_result for
\* a complete or error event, then publish_to_thread, first part
on_client_message(data, then) ==
    /\ publish_scan(data, then)
    /\ IF data.current_state \in TerminalStates
       THEN \E r \in SaveResults : save_result' = r /\ w_pc' = after_save(r)
       ELSE UNCHANGED save_result /\ w_pc' = "lset_rpush"

\* run_job publishes a data event (assistant response, tool init, tool complete)
RunJobPublish ==
    /\ variant \in WorkerVariants
    /\ w_pc = "run_job"
    /\ \E data \in DataEvents :
        /\ data.uuid = next_uuid => w_published < MaxEvents
        /\ on_client_message(data, "run_job")
        /\ next_uuid' = IF data.uuid = next_uuid THEN next_uuid + 1 ELSE next_uuid
        /\ w_published' = IF data.uuid = next_uuid THEN w_published + 1 ELSE w_published
    /\ UNCHANGED <<streamVars, variant, gatewayVars, errorVars, control_published, notified, in_except,
                   toolVars, registryVars, listVars, sessionVars, w_outcome>>

PublishWriteLost ==
    /\ w_pc = "lset_rpush"
    /\ w_pc' = "publish"
    /\ UNCHANGED <<streamVars, variant, gatewayVars, errorVars, completionVars, toolVars, registryVars,
                   listVars, sessionVars, w_outcome, w_published, next_uuid, pub>>

\* publish_to_thread, second part: LSET at the index found, or RPUSH
PublishWrite ==
    /\ w_pc = "lset_rpush"
    /\ responses' = IF pub.index >= 0
                    THEN [responses EXCEPT ![pub.index + 1] = message_data(pub)]
                    ELSE Append(responses, message_data(pub))
    /\ w_pc' = "publish"
    /\ UNCHANGED <<streamVars, variant, gatewayVars, errorVars, completionVars, toolVars, registryVars, pubsub_response, pubsub_control, subscribed, sessionVars,
                   w_outcome, w_published, next_uuid, pub>>

\* publish_to_thread, third part: PUBLISH "new" on the new_response channel
PublishNotify ==
    /\ w_pc = "publish"
    /\ pubsub_response' = Deliver(pubsub_response, "new_response", "new")
    /\ notified' = notified + 1
    /\ w_pc' = pub.then
    /\ pub' = NoPub
    /\ UNCHANGED <<streamVars, variant, gatewayVars, errorVars, control_published, save_result, in_except,
                   toolVars, registryVars, responses, pubsub_control, subscribed, sessionVars,
                   w_outcome, w_published, next_uuid>>

\* run_job ends: normally, by an exception, or cancelled by run_flow
RunJobEnds ==
    /\ variant \in WorkerVariants
    /\ w_pc = "run_job"
    /\ \E o \in {"ok", "raised", "cancelled"} : w_outcome' = o
    /\ w_pc' = "handle_flow_completion"
    /\ UNCHANGED <<streamVars, variant, gatewayVars, errorVars, completionVars, toolVars, registryVars, listVars, sessionVars, w_published, next_uuid, pub>>

\* the FLOW_COMPLETION event handle_flow_completion publishes for an outcome
flow_completion_data(outcome) ==
    [uuid |-> next_uuid,
     current_state |-> IF outcome = "raised" THEN "error" ELSE "complete",
     execute_type |-> "flow_completion"]

\* the control signal handle_flow_completion publishes for an outcome
flow_completion_signal(outcome) ==
    CASE outcome = "raised" -> "ERROR"
      [] outcome = "ok" -> "END_STREAM"
      [] OTHER -> "STOP"

\* handle_flow_completion: publish the FLOW_COMPLETION event ... (for a cancelled
\* task, task.exception() raises CancelledError: the except BaseException branch)
HandleFlowCompletion ==
    /\ w_pc = "handle_flow_completion"
    /\ on_client_message(flow_completion_data(w_outcome), "publish_control_signal")
    /\ next_uuid' = next_uuid + 1
    /\ in_except' = (w_outcome = "cancelled")
    /\ UNCHANGED <<streamVars, variant, gatewayVars, errorVars, control_published, notified, toolVars,
                   registryVars, listVars, sessionVars, w_outcome, w_published>>

\* a call to Redis made by publish_to_thread or publish_control_signal raises.
\* In run_job the exception ends the task; in the try of handle_flow_completion it
\* is caught by except BaseException; in that branch it leaves handle_flow_completion
PublishFails ==
    /\ variant = "worker"
    /\ w_pc \in {"lset_rpush", "publish", "publish_control_signal"}
    /\ IF w_pc # "publish_control_signal" /\ pub.then = "run_job"
       THEN /\ w_outcome' = "raised"
            /\ w_pc' = "handle_flow_completion"
            /\ UNCHANGED in_except
       ELSE IF in_except
       THEN /\ w_pc' = "raised"
            /\ UNCHANGED <<w_outcome, in_except>>
       ELSE /\ w_pc' = "flow_interrupted"
            /\ in_except' = TRUE
            /\ UNCHANGED w_outcome
    /\ pub' = NoPub
    /\ UNCHANGED <<streamVars, variant, gatewayVars, errorVars, control_published, notified, save_result,
                   toolVars, registryVars, listVars, sessionVars, w_published, next_uuid>>

\* handle_flow_completion, except BaseException: a FLOW_COMPLETION event with a
\* new UUID and state complete is published ...
FlowInterrupted ==
    /\ w_pc = "flow_interrupted"
    /\ on_client_message(flow_completion_data("cancelled"), "publish_control_signal")
    /\ next_uuid' = next_uuid + 1
    /\ UNCHANGED <<streamVars, variant, gatewayVars, errorVars, control_published, notified, in_except,
                   toolVars, registryVars, listVars, sessionVars, w_outcome, w_published>>

\* ... and then the control signal (publish_control_signal): STOP in the except
\* branch, else the signal of the outcome
PublishControlSignal ==
    /\ w_pc = "publish_control_signal"
    /\ LET signal == IF in_except THEN "STOP" ELSE flow_completion_signal(w_outcome) IN
        /\ pubsub_control' = Deliver(pubsub_control, "control", signal)
        /\ control_published' = Append(control_published, signal)
    /\ w_pc' = "done"
    /\ UNCHANGED <<streamVars, variant, gatewayVars, errorVars, notified, save_result, in_except,
                   toolVars, registryVars, responses, pubsub_response, subscribed, sessionVars,
                   w_outcome, w_published, next_uuid, pub>>

\* ------------------------------------------------- list variant: session
\* int(last_id) if last_id else -1
initial_index(lid) == IF lid = <<>> THEN 0 - 1 ELSE lid[1]

StartIndexZero(lpi) == 0

NewStartIndexZero(lpi) == 0

\* start_index of the replay
start_index(lpi) == IF lpi >= 0 THEN lpi + 1 ELSE 0

\* new_start_index of the tail read
new_start_index(lpi) == lpi + 1

\* the completion check on a list entry: response.get('type') == 'status' and
\* response.get('status') in [...]; message_data has no status key
is_completion_status(entry) ==
    entry.type = "status" /\ entry.status \in {"completed", "failed", "stopped"}

\* the frame of a list entry at index idx
ResponseFrame(item) ==
    Frame(item.entry.type, item.idx, item.entry.current_state)

\* the entries a for-loop over items yields: up to and including the first completion status
RECURSIVE UpToCompletion(_)
UpToCompletion(items) ==
    IF items = <<>> THEN <<>>
    ELSE IF is_completion_status(Head(items).entry) THEN <<Head(items)>>
    ELSE <<Head(items)>> \o UpToCompletion(Tail(items))

FramesOf(items) == [k \in 1..Len(items) |-> ResponseFrame(items[k])]

StatusMapCompleted(signal) == "completed"

\* status_map.get(control_signal, 'completed')
status_map(signal) ==
    CASE signal = "STOP" -> "stopped"
      [] signal = "END_STREAM" -> "completed"
      [] signal = "ERROR" -> "failed"
      [] OTHER -> "completed"

\* finally: unsubscribe and close both subscriptions, cancel the listener task;
\* the queue of the generator goes with it
Cleanup ==
    /\ subscribed' = {}
    /\ pubsub_response' = <<>>
    /\ pubsub_control' = <<>>
    /\ message_queue' = <<>>
    /\ pc' = "ended"

\* the generator goes on at next_pc with the given queue
GoOn(next_pc, queue) ==
    /\ pc' = next_pc
    /\ message_queue' = queue
    /\ UNCHANGED <<subscribed, pubsub_response, pubsub_control>>

\* stream_generator up to the end of step 1: read the whole list and replay it
\* (variant "decode": over a stored log, with Redis reachable)
Connect ==
    /\ variant \in {"list", "decode", "listener"}
    /\ pc = "init"
    /\ \E lid \in {<<>>} \cup {<<c>> : c \in 0..MaxCursor},
          redis_ok \in IF variant = "decode" THEN {TRUE} ELSE BOOLEAN :
        /\ last_id' = lid
        /\ IF ~redis_ok \/ ~decodable(lrange_from(responses, 0))
           THEN \* lrange or json.loads raises: the outer handler yields an error status
                /\ frames' = Yield(frames, Frame("status", NoPos, "error"))
                /\ last_processed_index' = initial_index(lid)
                /\ Cleanup
           ELSE LET items == UpToCompletion(
                                 IF responses = <<>> THEN <<>>
                                 ELSE lrange_from(responses, start_index(initial_index(lid))))
                    terminate_stream ==
                        items # <<>> /\ is_completion_status(items[Len(items)].entry)
                    replayed == YieldAll(frames, FramesOf(items))
                IN  /\ last_processed_index' =
                            IF items = <<>> THEN initial_index(lid) ELSE items[Len(items)].idx
                    /\ IF terminate_stream
                       THEN /\ frames' = Yield(replayed, Frame("status", NoPos, "completed"))
                            /\ Cleanup
                       ELSE /\ frames' = replayed
                            /\ GoOn("check_connected", message_queue)
    /\ UNCHANGED <<streamVars, variant, gatewayVars, errorVars, completionVars, toolVars, registryVars, responses, workerVars, listen_control_done,
                   control_signal, disconnected, log_len_at_subscribe>>

\* step 2: the generator returns if the client is gone
CheckConnected ==
    /\ pc = "check_connected"
    /\ IF disconnected
       THEN Cleanup
       ELSE GoOn("subscribe_response", message_queue)
    /\ UNCHANGED <<streamVars, variant, gatewayVars, errorVars, completionVars, toolVars, registryVars, responses, workerVars, last_id, last_processed_index,
                   listen_control_done, control_signal, frames, disconnected,
                   log_len_at_subscribe>>

\* step 3: subscribe to the new_response channel ...
SubscribeResponse ==
    /\ pc = "subscribe_response"
    /\ subscribed' = subscribed \cup {"new_response"}
    /\ pc' = "subscribe_control"
    /\ UNCHANGED <<streamVars, variant, gatewayVars, errorVars, completionVars, toolVars, registryVars, responses, pubsub_response, pubsub_control, workerVars,
                   last_id, last_processed_index, message_queue, listen_control_done,
                   control_signal, frames, disconnected, log_len_at_subscribe>>

\* ... and to the control channel; the listener task starts
SubscribeControl ==
    /\ pc = "subscribe_control"
    /\ subscribed' = subscribed \cup {"control"}
    /\ log_len_at_subscribe' = Len(responses)
    /\ pc' = "main"
    /\ UNCHANGED <<streamVars, variant, gatewayVars, errorVars, completionVars, toolVars, registryVars, responses, pubsub_response, pubsub_control, workerVars,
                   last_id, last_processed_index, message_queue, listen_control_done,
                   control_signal, frames, disconnected>>

ListenerRunning == pc \in {"main", "wait"}

\* listen_response: one message of the new_response subscription into the queue
ListenResponse ==
    /\ ListenerRunning
    /\ "listen_response" \notin listen_failed
    /\ pubsub_response # <<>>
    /\ message_queue' = Append(message_queue, [type |-> "new_response", data |-> Head(pubsub_response)])
    /\ pubsub_response' = Tail(pubsub_response)
    /\ UNCHANGED <<streamVars, variant, gatewayVars, errorVars, completionVars, toolVars, registryVars, responses, pubsub_control, subscribed, workerVars, pc,
                   last_id, last_processed_index, listen_control_done, control_signal, frames,
                   disconnected, log_len_at_subscribe>>

\* listen_control: the first control message into the queue, then it returns
ListenControl ==
    /\ ListenerRunning
    /\ "listen_control" \notin listen_failed
    /\ ~listen_control_done
    /\ pubsub_control # <<>>
    /\ message_queue' = Append(message_queue, [type |-> "control", data |-> Head(pubsub_control)])
    /\ pubsub_control' = Tail(pubsub_control)
    /\ listen_control_done' = TRUE
    /\ UNCHANGED <<streamVars, variant, gatewayVars, errorVars, completionVars, toolVars, registryVars, responses, pubsub_response, subscribed, workerVars, pc,
                   last_id, last_processed_index, control_signal, frames, disconnected,
                   log_len_at_subscribe>>

\* the two coroutines listen_messages gathers
Listeners == {"listen_response", "listen_control"}

\* pubsub.listen() raises in one of the coroutines: gather(return_exceptions=True)
\* keeps the exception as a result, so the except branch of listen_messages is not
\* entered and nothing is put on the queue
ListenerRaises(l) ==
    /\ variant = "listener"
    /\ ListenerRunning
    /\ l \notin listen_failed
    /\ ~(l = "listen_control" /\ listen_control_done)
    /\ listen_failed' = listen_failed \cup {l}
    /\ UNCHANGED <<variant, raceVars, serviceVars, handoffVars, stampVars, cleanupVars, errorVars, completionVars, toolVars, registryVars,
                   streamVars, listVars, workerVars, sessionVars>>

\* main loop, top of an iteration: stop if the client is gone
MainCheckDisconnected ==
    /\ pc = "main"
    /\ IF disconnected
       THEN Cleanup
       ELSE GoOn("wait", message_queue)
    /\ UNCHANGED <<streamVars, variant, gatewayVars, errorVars, completionVars, toolVars, registryVars, responses, workerVars, last_id, last_processed_index,
                   listen_control_done, control_signal, frames, disconnected,
                   log_len_at_subscribe>>

\* main loop: no queue item within 30 s, a keep_alive frame is sent
MainKeepAlive ==
    /\ pc = "wait"
    /\ message_queue = <<>>
    /\ frames' = Yield(frames, Frame("keep_alive", NoPos, ""))
    /\ pc' = "main"
    /\ UNCHANGED <<streamVars, variant, gatewayVars, errorVars, completionVars, toolVars, registryVars, listVars, workerVars, last_id, last_processed_index,
                   message_queue, listen_control_done, control_signal, disconnected,
                   log_len_at_subscribe>>

\* the new_response branch of the main loop: read the list from new_start_index on
HandleNewResponse ==
    \E redis_ok \in BOOLEAN :
        IF ~redis_ok \/ ~decodable(lrange_from(responses, new_start_index(last_processed_index)))
        THEN \* lrange or json.loads raises: an error status is sent and the loop ends
             /\ frames' = Yield(frames, Frame("status", NoPos, "error"))
             /\ Cleanup
             /\ UNCHANGED <<last_processed_index, control_signal>>
        ELSE LET items == UpToCompletion(
                              lrange_from(responses, new_start_index(last_processed_index)))
                 terminate_stream ==
                     items # <<>> /\ is_completion_status(items[Len(items)].entry)
             IN  /\ frames' = YieldAll(frames, FramesOf(items))
                 /\ last_processed_index' =
                        IF items = <<>> THEN last_processed_index ELSE items[Len(items)].idx
                 /\ IF terminate_stream
                    THEN Cleanup
                    ELSE GoOn("main", Tail(message_queue))
                 /\ UNCHANGED control_signal

HandleControlContinues(signal) ==
    /\ control_signal' = signal
    /\ frames' = Yield(frames, Frame("status", NoPos, status_map(signal)))
    /\ GoOn("main", Tail(message_queue))
    /\ UNCHANGED last_processed_index

\* the control branch of the main loop: the mapped status frame, then the loop ends
HandleControl(signal) ==
    /\ control_signal' = signal
    /\ frames' = Yield(frames, Frame("status", NoPos, status_map(signal)))
    /\ Cleanup
    /\ UNCHANGED last_processed_index

\* the error branch of the main loop (a listener error item)
HandleListenerError ==
    /\ frames' = Yield(frames, Frame("status", NoPos, "error"))
    /\ Cleanup
    /\ UNCHANGED <<last_processed_index, control_signal>>

\* main loop: a queue item is handled
MainDequeue ==
    /\ pc = "wait"
    /\ message_queue # <<>>
    /\ LET queue_item == Head(message_queue) IN
       CASE queue_item.type = "new_response" -> HandleNewResponse
         [] queue_item.type = "control" -> HandleControl(queue_item.data)
         [] OTHER -> HandleListenerError
    /\ UNCHANGED <<streamVars, variant, gatewayVars, errorVars, completionVars, toolVars, registryVars, responses, workerVars, last_id, listen_control_done,
                   disconnected, log_len_at_subscribe>>

\* the client goes away
ClientDisconnects ==
    /\ pc \notin {"init", "ended"}
    /\ ~disconnected
    /\ disconnected' = TRUE
    /\ UNCHANGED <<streamVars, variant, gatewayVars, errorVars, completionVars, toolVars, registryVars, listVars, workerVars, pc, last_id, last_processed_index,
                   message_queue, listen_control_done, control_signal, frames,
                   log_len_at_subscribe>>

\* the response is cancelled after a disconnect: CancelledError ends the loop
StreamCancelled ==
    /\ variant = "list"
    /\ pc \in {"main", "wait"}
    /\ disconnected
    /\ Cleanup
    /\ UNCHANGED <<streamVars, variant, gatewayVars, errorVars, completionVars, toolVars, registryVars, responses, workerVars, last_id, last_processed_index,
                   listen_control_done, control_signal, frames, disconnected,
                   log_len_at_subscribe>>

\* ------------------------------------------------------ stream variant
\* Time is counted in ticks; the StreamConfig options below are in ticks.
\* entries the writer appends to the stream
MaxStreamLen == 2
\* StreamConfig.max_stream_length: read from the configuration, used nowhere
max_stream_length == 1
\* StreamConfig.stream_read_count
stream_read_count == 2
\* StreamConfig.message_queue_max_size
message_queue_max_size == 2
\* StreamConfig.keep_alive_interval
keep_alive_interval == 1
\* StreamConfig.timeout_minutes (business-message timeout, also the await-creation ceiling)
timeout_minutes == 2
\* StreamConfig.connection_max_duration_minutes
connection_max_duration_minutes == 3
\* StreamConfig.stream_check_interval_seconds
stream_check_interval_seconds == 1
\* StreamConfig.connection_timeout_check_interval_seconds
connection_timeout_check_interval_seconds == 1

\* StreamConfig.STREAM_START_ID, "0-0"; entry IDs are 1, 2, ...
STREAM_START_ID == 0

\* ages are kept up to the first value above every threshold they are compared with
AgeCap == (IF timeout_minutes > connection_max_duration_minutes
           THEN timeout_minutes ELSE connection_max_duration_minutes) + 1

Older(age) == IF age < AgeCap THEN age + 1 ELSE age

\* what a writer can append: {event: <type-string>, data: <json>}
\*   ok = FALSE stands for an entry without event/data or with undecodable data
StreamEntryKinds ==
    {[event |-> "task_agent_execute", current_state |-> "processing", ok |-> TRUE],
     [event |-> "task_agent_execute", current_state |-> "complete", ok |-> TRUE],
     [event |-> "keep_alive", current_state |-> "", ok |-> TRUE],
     [event |-> "task_agent_execute", current_state |-> "", ok |-> FALSE]}

\* Event Log append of the stream variant (XADD): the server assigns the next ID
StreamAppend ==
    /\ variant = "stream"
    /\ Len(stream) < MaxStreamLen
    /\ \E k \in StreamEntryKinds :
        stream' = Append(stream, [id |-> Len(stream) + 1, event |-> k.event,
                                  current_state |-> k.current_state, ok |-> k.ok])
    /\ UNCHANGED <<variant, gatewayVars, errorVars, completionVars, toolVars, registryVars, listVars, workerVars, sessionVars, listening_id, since_start,
                   since_business, poll_timer, ka_timer, tc_timer, keep_alive_task,
                   timeout_checker_task, redis_listener_task, result>>

\* the first count elements of a sequence
FirstN(seq, count) == SubSeq(seq, 1, IF Len(seq) < count THEN Len(seq) ELSE count)

\* XRANGE key min + COUNT count
xrange(s, min, count) == FirstN(SelectSeq(s, LAMBDA e : e.id >= min), count)

\* XREAD COUNT count STREAMS key id: the entries after id
xread(s, id, count) == FirstN(SelectSeq(s, LAMBDA e : e.id > id), count)

\* last_id or STREAM_START_ID
actual_start_id(start_id) == IF start_id = <<>> THEN STREAM_START_ID ELSE start_id[1]

\* fetch_messages without the removal of the entry with the start ID
FetchMessagesKeepStart(s, start_id, blocking) ==
    IF s = <<>>
    THEN [messages |-> <<>>, next_id |-> actual_start_id(start_id)]
    ELSE LET start == actual_start_id(start_id)
             raw == IF blocking THEN xread(s, start, stream_read_count)
                    ELSE xrange(s, start, stream_read_count)
         IN  [messages |-> raw,
              next_id |-> IF raw # <<>> THEN raw[Len(raw)].id ELSE start]

\* RedisStreamReader.fetch_messages: (messages, next_id)
fetch_messages(s, start_id, blocking) ==
    IF s = <<>>
    THEN [messages |-> <<>>, next_id |-> actual_start_id(start_id)]
    ELSE LET start == actual_start_id(start_id)
             raw == IF blocking THEN xread(s, start, stream_read_count)
                    ELSE xrange(s, start, stream_read_count)
             messages == IF start # STREAM_START_ID /\ raw # <<>> /\ raw[1].id = start
                         THEN Tail(raw) ELSE raw
         IN  [messages |-> messages,
              next_id |-> IF messages # <<>> THEN messages[Len(messages)].id ELSE start]

IsBusinessExceptWaiting(event_type) ==
    event_type \notin {"waiting", "error", "ping", "heartbeat"}

\* SseEventMessage.is_business_message
is_business_message(event_type) ==
    event_type \notin {"waiting", "keep_alive", "error", "ping", "heartbeat"}

\* EventMessageFactory.parse_redis_message, or the error event made of its failure
event_message(msg) ==
    IF msg.ok THEN Frame(msg.event, msg.id, msg.current_state)
    ELSE Frame("error", NoPos, "parse_error")

EventMessages(messages) == [k \in 1..Len(messages) |-> event_message(messages[k])]

\* some message of the batch parses and is a business message
has_business_message(messages) ==
    \E k \in 1..Len(messages) : messages[k].ok /\ is_business_message(messages[k].event)

PutAll(queue, msgs) == queue \o msgs

\* message_queue.put_nowait for each message in turn; QueueFull drops the message
RECURSIVE put_nowait_all(_, _)
put_nowait_all(queue, msgs) ==
    IF msgs = <<>> THEN queue
    ELSE put_nowait_all(IF Len(queue) < message_queue_max_size
                        THEN Append(queue, Head(msgs)) ELSE queue,
                        Tail(msgs))

\* the finally of stream_sse_events: the three subtasks are cancelled and gathered
\* (return_exceptions=True swallows what they raised); the queue and the timers go
\* with the generator
Gathered(task) == IF task = "none" THEN "none" ELSE "done"

EndStream(exception) ==
    /\ pc' = "ended"
    /\ result' = exception
    /\ message_queue' = <<>>
    /\ poll_timer' = 0
    /\ ka_timer' = 0
    /\ tc_timer' = 0
    /\ keep_alive_task' = Gathered(keep_alive_task)
    /\ timeout_checker_task' = Gathered(timeout_checker_task)
    /\ redis_listener_task' = Gathered(redis_listener_task)

\* stream_sse_events up to the existence check; a waiting frame if there is no stream
StreamConnect ==
    /\ variant = "stream"
    /\ pc = "init"
    /\ \E lid \in {<<>>} \cup {<<c>> : c \in 1..MaxCursor} : last_id' = lid
    /\ since_start' = 0
    /\ since_business' = 0
    /\ IF stream = <<>>
       THEN /\ frames' = Yield(frames, Frame("waiting", NoPos, ""))
            /\ pc' = "await_log"
       ELSE /\ pc' = "replay"
            /\ UNCHANGED frames
    /\ poll_timer' = 0
    /\ UNCHANGED <<variant, gatewayVars, errorVars, completionVars, toolVars, registryVars, listVars, workerVars, last_processed_index, message_queue,
                   listen_control_done, control_signal, disconnected, log_len_at_subscribe,
                   stream, listening_id, ka_timer, tc_timer, keep_alive_task,
                   timeout_checker_task, redis_listener_task, result>>

AwaitPollNoTimeout ==
    /\ pc = "await_log"
    /\ poll_timer = 0
    /\ IF stream # <<>>
       THEN /\ pc' = "replay"
            /\ UNCHANGED poll_timer
       ELSE /\ poll_timer' = stream_check_interval_seconds
            /\ UNCHANGED pc
    /\ UNCHANGED <<variant, gatewayVars, errorVars, completionVars, toolVars, registryVars, listVars, workerVars, last_id, last_processed_index,
                   message_queue, listen_control_done, control_signal, frames, disconnected,
                   log_len_at_subscribe, stream, listening_id, since_start, since_business,
                   ka_timer, tc_timer, keep_alive_task, timeout_checker_task,
                   redis_listener_task, result>>

\* wait_for_stream_creation: one round of the polling loop
AwaitPoll ==
    /\ pc = "await_log"
    /\ poll_timer = 0
    /\ IF stream # <<>>
       THEN /\ pc' = "replay"
            /\ UNCHANGED <<poll_timer, result, keep_alive_task, timeout_checker_task,
                           redis_listener_task, message_queue, ka_timer, tc_timer>>
       ELSE IF since_start >= timeout_minutes
       THEN EndStream("StreamTimeoutException")
       ELSE /\ poll_timer' = stream_check_interval_seconds
            /\ UNCHANGED <<pc, result, keep_alive_task, timeout_checker_task,
                           redis_listener_task, message_queue, ka_timer, tc_timer>>
    /\ UNCHANGED <<variant, gatewayVars, errorVars, completionVars, toolVars, registryVars, listVars, workerVars, last_id, last_processed_index,
                   listen_control_done, control_signal, frames, disconnected,
                   log_len_at_subscribe, stream, listening_id, since_start, since_business>>

\* the history replay, then the queue and the three subtasks are created
Replay ==
    /\ pc = "replay"
    /\ LET fetched == fetch_messages(stream, last_id, FALSE) IN
       IF fetched.messages # <<>> /\ disconnected
       THEN \* _check_client_connection raises before the first yield
            /\ EndStream("StreamClientDisconnectedException")
            /\ UNCHANGED <<frames, listening_id, since_business>>
       ELSE /\ frames' = YieldAll(frames, EventMessages(fetched.messages))
            /\ listening_id' = fetched.next_id
            /\ since_business' = IF has_business_message(fetched.messages)
                                 THEN 0 ELSE since_business
            /\ message_queue' = <<>>
            /\ keep_alive_task' = "running"
            /\ timeout_checker_task' = "running"
            /\ redis_listener_task' = "running"
            /\ ka_timer' = keep_alive_interval
            /\ tc_timer' = connection_timeout_check_interval_seconds
            /\ pc' = "tail"
            /\ UNCHANGED <<result, poll_timer>>
    /\ UNCHANGED <<variant, gatewayVars, errorVars, completionVars, toolVars, registryVars, listVars, workerVars, last_id, last_processed_index,
                   listen_control_done, control_signal, disconnected, log_len_at_subscribe,
                   stream, since_start>>

\* _keep_alive_timer: the sleep is over, a keep_alive event is put unless the queue is full
KeepAliveTick ==
    /\ pc = "tail"
    /\ keep_alive_task = "running"
    /\ ka_timer = 0
    /\ message_queue' = put_nowait_all(message_queue, <<Frame("keep_alive", NoPos, "")>>)
    /\ ka_timer' = keep_alive_interval
    /\ UNCHANGED <<variant, gatewayVars, errorVars, completionVars, toolVars, registryVars, listVars, workerVars, pc, last_id, last_processed_index,
                   listen_control_done, control_signal, frames, disconnected,
                   log_len_at_subscribe, stream, listening_id, since_start, since_business,
                   poll_timer, tc_timer, keep_alive_task, timeout_checker_task,
                   redis_listener_task, result>>

\* _timeout_checker: the sleep is over; the three checks. An exception ends the
\* checker task; nothing in stream_sse_events awaits the task before its finally.
TimeoutCheck ==
    /\ pc = "tail"
    /\ timeout_checker_task = "running"
    /\ tc_timer = 0
    /\ IF disconnected
       THEN /\ timeout_checker_task' = "StreamClientDisconnectedException"
            /\ UNCHANGED tc_timer
       ELSE IF since_business > timeout_minutes
       THEN /\ timeout_checker_task' = "StreamTimeoutException:business"
            /\ UNCHANGED tc_timer
       ELSE IF since_start > connection_max_duration_minutes
       THEN /\ timeout_checker_task' = "StreamTimeoutException:connection"
            /\ UNCHANGED tc_timer
       ELSE /\ tc_timer' = connection_timeout_check_interval_seconds
            /\ UNCHANGED timeout_checker_task
    /\ UNCHANGED <<variant, gatewayVars, errorVars, completionVars, toolVars, registryVars, listVars, workerVars, sessionVars, stream, listening_id,
                   since_start, since_business, poll_timer, ka_timer, keep_alive_task,
                   redis_listener_task, result>>

\* _redis_message_listener: a blocking read returns new entries, which are parsed and queued
ListenerRead ==
    /\ pc = "tail"
    /\ redis_listener_task = "running"
    /\ ~disconnected
    /\ LET fetched == fetch_messages(stream, <<listening_id>>, TRUE) IN
        /\ fetched.messages # <<>>
        /\ listening_id' = fetched.next_id
        /\ since_business' = IF has_business_message(fetched.messages)
                             THEN 0 ELSE since_business
        /\ message_queue' = put_nowait_all(message_queue, EventMessages(fetched.messages))
    /\ UNCHANGED <<variant, gatewayVars, errorVars, completionVars, toolVars, registryVars, listVars, workerVars, pc, last_id, last_processed_index,
                   listen_control_done, control_signal, frames, disconnected,
                   log_len_at_subscribe, stream, since_start, poll_timer, ka_timer, tc_timer,
                   keep_alive_task, timeout_checker_task, redis_listener_task, result>>

\* _redis_message_listener: the blocking read fails, fetch_messages raises
\* StreamRedisException in the listener task; nothing in stream_sse_events awaits
\* the task before its finally
ListenerReadFails ==
    /\ pc = "tail"
    /\ redis_listener_task = "running"
    /\ ~disconnected
    /\ redis_listener_task' = "StreamRedisException"
    /\ UNCHANGED <<variant, gatewayVars, errorVars, completionVars, toolVars, registryVars, listVars, workerVars, sessionVars, stream, listening_id,
                   since_start, since_business, poll_timer, ka_timer, tc_timer,
                   keep_alive_task, timeout_checker_task, result>>

\* _redis_message_listener: _check_client_connection raises in the listener task
ListenerDisconnected ==
    /\ pc = "tail"
    /\ redis_listener_task = "running"
    /\ disconnected
    /\ redis_listener_task' = "StreamClientDisconnectedException"
    /\ UNCHANGED <<variant, gatewayVars, errorVars, completionVars, toolVars, registryVars, listVars, workerVars, sessionVars, stream, listening_id,
                   since_start, since_business, poll_timer, ka_timer, tc_timer,
                   keep_alive_task, timeout_checker_task, result>>

\* main loop: message_task completes, the event is yielded
MainYield ==
    /\ pc = "tail"
    /\ message_queue # <<>>
    /\ frames' = Yield(frames, Head(message_queue))
    /\ message_queue' = Tail(message_queue)
    /\ UNCHANGED <<variant, gatewayVars, errorVars, completionVars, toolVars, registryVars, listVars, workerVars, pc, last_id, last_processed_index,
                   listen_control_done, control_signal, disconnected, log_len_at_subscribe,
                   streamVars>>

\* main loop: disconnect_task returns true
MainDisconnected ==
    /\ pc = "tail"
    /\ disconnected
    /\ EndStream("StreamClientDisconnectedException")
    /\ UNCHANGED <<variant, gatewayVars, errorVars, completionVars, toolVars, registryVars, listVars, workerVars, last_id, last_processed_index,
                   listen_control_done, control_signal, frames, disconnected,
                   log_len_at_subscribe, stream, listening_id, since_start, since_business>>

Running(task, timer) == task = "running" => timer > 0
Down(timer) == IF timer > 0 THEN timer - 1 ELSE 0

\* time passes, up to the next sleep that ends. The main loop of the tail polls
\* is_disconnected on every iteration without sleeping, so it sees a disconnect
\* before the next sleep ends.
Tick ==
    /\ variant = "stream"
    /\ \/ pc = "await_log" /\ poll_timer > 0
       \/ /\ pc = "tail"
          /\ ~disconnected
          /\ Running(keep_alive_task, ka_timer)
          /\ Running(timeout_checker_task, tc_timer)
    /\ since_start' = Older(since_start)
    /\ since_business' = IF since_business < timeout_minutes + 1
                         THEN since_business + 1 ELSE since_business
    /\ poll_timer' = Down(poll_timer)
    /\ ka_timer' = IF keep_alive_task = "running" THEN Down(ka_timer) ELSE ka_timer
    /\ tc_timer' = IF timeout_checker_task = "running" THEN Down(tc_timer) ELSE tc_timer
    /\ UNCHANGED <<variant, gatewayVars, errorVars, completionVars, toolVars, registryVars, listVars, workerVars, sessionVars, stream, listening_id,
                   keep_alive_task, timeout_checker_task, redis_listener_task, result>>

\* ------------------------------------------- concurrent tool calls (tools)
\* tool calls run_job gathers in one step
MaxTools == 2
\* latest time on the clock of the worker
MaxClock == 1

Tools == 1..MaxTools

NoToolPub == [uuid |-> 0, current_state |-> "", execute_type |-> "", create_at |-> 0,
              index |-> 0 - 1]

WriteEntryAppend(list, index, entry) == Append(list, entry)

\* LSET at the index found by the scan, or RPUSH
write_entry(list, index, entry) ==
    IF index >= 0 THEN [list EXCEPT ![index + 1] = entry] ELSE Append(list, entry)

\* where a tool call goes on after a publish: send_complete_message follows
\* send_init_message
after_publish(t) == IF tool_pub[t].current_state = "init" THEN "send_complete" ELSE "done"

\* ToolExecutor.execute: the tool call gets its tool_call_uuid
ToolExecute(t) ==
    /\ variant = "tools"
    /\ tool_pc[t] = "execute"
    /\ tool_pub' = [tool_pub EXCEPT ![t].uuid = next_uuid]
    /\ next_uuid' = next_uuid + 1
    /\ tool_pc' = [tool_pc EXCEPT ![t] = "send_init"]
    /\ UNCHANGED <<variant, gatewayVars, errorVars, completionVars, listVars, w_pc, w_outcome, w_published, pub, sessionVars,
                   streamVars, now, tool_returned, registryVars>>

\* send_init_message / send_complete_message: a new AgentExecuteData with the
\* tool_call_uuid; publish_to_thread stamps create_at (it is None) and scans the list
ToolPublishScan(t) ==
    /\ tool_pc[t] \in {"send_init", "send_complete"}
    /\ tool_pub' = [tool_pub EXCEPT ![t] =
            [uuid |-> tool_pub[t].uuid,
             current_state |-> IF tool_pc[t] = "send_init" THEN "init" ELSE "complete",
             execute_type |-> "tool",
             create_at |-> now,
             index |-> find_uuid(responses, tool_pub[t].uuid, 0)]]
    /\ tool_pc' = [tool_pc EXCEPT ![t] = "lset_rpush"]
    /\ UNCHANGED <<variant, gatewayVars, errorVars, completionVars, listVars, workerVars, sessionVars, streamVars, now,
                   tool_returned, registryVars>>

\* publish_to_thread: LSET (then expire, publish, return the index) or RPUSH
ToolPublishWrite(t) ==
    /\ tool_pc[t] = "lset_rpush"
    /\ responses' = write_entry(responses, tool_pub[t].index, message_data(tool_pub[t]))
    /\ IF tool_pub[t].index >= 0
       THEN /\ tool_returned' = [tool_returned EXCEPT
                                    ![t] = Append(tool_returned[t], tool_pub[t].index)]
            /\ tool_pc' = [tool_pc EXCEPT ![t] = after_publish(t)]
       ELSE /\ tool_pc' = [tool_pc EXCEPT ![t] = "llen"]
            /\ UNCHANGED tool_returned
    /\ UNCHANGED <<variant, gatewayVars, errorVars, completionVars, pubsub_response, pubsub_control, subscribed, workerVars,
                   sessionVars, streamVars, now, tool_pub, registryVars>>

\* publish_to_thread after RPUSH: message_index = LLEN - 1, expire, publish, return
ToolPublishLlen(t) ==
    /\ tool_pc[t] = "llen"
    /\ tool_returned' = [tool_returned EXCEPT
                            ![t] = Append(tool_returned[t], Len(responses) - 1)]
    /\ tool_pc' = [tool_pc EXCEPT ![t] = after_publish(t)]
    /\ UNCHANGED <<variant, gatewayVars, errorVars, completionVars, listVars, workerVars, sessionVars, streamVars, now, tool_pub,
                   registryVars>>

\* time passes on the clock of the worker
TimePasses ==
    /\ variant \in {"tools", "stamp"}
    /\ now < MaxClock
    /\ now' = now + 1
    /\ UNCHANGED <<variant, gatewayVars, errorVars, completionVars, listVars, workerVars, sessionVars, streamVars, tool_pc,
                   tool_pub, tool_returned, registryVars>>

\* ------------------------------------------- thread registry (registry)
\* thread IDs that clients name in their requests
MaxThreads == 2

ThreadIds == 1..MaxThreads

\* redis.ltrim(runs_key, 0, 99)
RunListCap == 100

NoMetadata == [exists |-> FALSE, status |-> "", run_count |-> 0, last_run_id |-> 0]

\* ThreadMetadata(status=ACTIVE, run_count=0, last_run_id=None)
NewMetadata == [exists |-> TRUE, status |-> "active", run_count |-> 0, last_run_id |-> 0]

NoResponse == [op |-> "", thread |-> 0, status |-> 0, opened |-> FALSE, run_id |-> 0]

Response(op, thread, status, opened, run_id) ==
    [op |-> op, thread |-> thread, status |-> status, opened |-> opened, run_id |-> run_id]

\* the thread of variant "race": it has an active metadata record
RaceThread == 1

\* generate_uuid(domain_type) has one required positional parameter: a call with
\* another number of arguments raises TypeError
generate_uuid_raises(args) == Len(args) # 1

ValidateExists(metadata, thread_id) == metadata[thread_id].exists

\* AgentThreadService.validate_thread
validate_thread(metadata, thread_id) ==
    IF ~metadata[thread_id].exists THEN FALSE
    ELSE metadata[thread_id].status = "active"

\* Redis outlives the gateway: the registry starts with the metadata records that
\* are in the store, each absent or as create_thread writes it
RegistryInit ==
    /\ IF variant = "registry"
       THEN thread_metadata \in [ThreadIds -> {NoMetadata, NewMetadata}]
       ELSE IF variant = "race"
       THEN thread_metadata = [t \in ThreadIds |->
                                 IF t = RaceThread THEN NewMetadata ELSE NoMetadata]
       ELSE thread_metadata = [t \in ThreadIds |-> NoMetadata]
    /\ thread_runs = [t \in ThreadIds |-> <<>>]
    /\ thread_run = {}
    /\ celery_queue = <<>>
    /\ http = NoResponse

\* POST /initiate: create_thread calls generate_uuid() without the domain type;
\* the TypeError is re-raised and initiate_thread answers 500
InitiateThread ==
    /\ variant = "registry"
    /\ IF generate_uuid_raises(<<>>)
       THEN /\ http' = Response("initiate", 0, 500, FALSE, 0)
            /\ UNCHANGED <<thread_metadata, next_uuid>>
       ELSE /\ next_uuid \in ThreadIds
            /\ thread_metadata' = [thread_metadata EXCEPT ![next_uuid] = NewMetadata]
            /\ http' = Response("initiate", next_uuid, 200, FALSE, 0)
            /\ next_uuid' = next_uuid + 1
    /\ UNCHANGED <<variant, gatewayVars, errorVars, completionVars, listVars, w_pc, w_outcome, w_published, pub, sessionVars,
                   streamVars, toolVars, thread_runs, thread_run, celery_queue>>

\* AgentThreadService.execute_task for a validated thread
execute_task(thread_id) ==
    IF generate_uuid_raises(<<>>)
    THEN \* run_id = generate_uuid() raises before anything is written: 500
         /\ http' = Response("execute", thread_id, 500, FALSE, 0)
         /\ UNCHANGED <<thread_metadata, thread_runs, thread_run, celery_queue, next_uuid>>
    ELSE LET run_id == next_uuid IN
         /\ thread_run' = thread_run \cup {<<thread_id, run_id>>}
         /\ thread_runs' = [thread_runs EXCEPT
                ![thread_id] = FirstN(<<run_id>> \o thread_runs[thread_id], RunListCap)]
         /\ thread_metadata' =
                IF thread_metadata[thread_id].exists
                THEN [thread_metadata EXCEPT
                        ![thread_id].run_count = thread_metadata[thread_id].run_count + 1,
                        ![thread_id].last_run_id = run_id]
                ELSE thread_metadata
         /\ celery_queue' = Append(celery_queue, <<thread_id, run_id>>)
         /\ next_uuid' = next_uuid + 1
         /\ http' = Response("execute", thread_id, 200, FALSE, run_id)

ExecuteAgentTaskUnchecked(thread_id) ==
    /\ variant = "registry"
    /\ execute_task(thread_id)
    /\ UNCHANGED <<variant, gatewayVars, errorVars, completionVars, listVars, w_pc, w_outcome, w_published, pub, sessionVars,
                   streamVars, toolVars>>

\* POST /{thread_id}/execute
ExecuteAgentTask(thread_id) ==
    /\ variant = "registry"
    /\ IF ~validate_thread(thread_metadata, thread_id)
       THEN /\ http' = Response("execute", thread_id, 404, FALSE, 0)
            /\ UNCHANGED <<thread_metadata, thread_runs, thread_run, celery_queue, next_uuid>>
       ELSE execute_task(thread_id)
    /\ UNCHANGED <<variant, gatewayVars, errorVars, completionVars, listVars, w_pc, w_outcome, w_published, pub, sessionVars,
                   streamVars, toolVars>>

\* GET /{thread_id}/stream: 404 unless the thread validates, else the stream opens
StreamThreadEvents(thread_id) ==
    /\ variant = "registry"
    /\ http' = IF ~validate_thread(thread_metadata, thread_id)
               THEN Response("stream", thread_id, 404, FALSE, 0)
               ELSE Response("stream", thread_id, 200, TRUE, 0)
    /\ UNCHANGED <<variant, gatewayVars, errorVars, completionVars, listVars, workerVars, sessionVars, streamVars, toolVars,
                   thread_metadata, thread_runs, thread_run, celery_queue>>

\* GET of the legacy event-stream endpoint (flowUuid = thread ID): the parameters
\* are checked for emptiness only, then stream_sse_events is handed to the response
StreamLlmContent(thread_id) ==
    /\ variant = "registry"
    /\ http' = Response("event_stream", thread_id, 200, TRUE, 0)
    /\ UNCHANGED <<variant, gatewayVars, errorVars, completionVars, listVars, workerVars, sessionVars, streamVars, toolVars,
                   thread_metadata, thread_runs, thread_run, celery_queue>>

\* AgentThreadService.update_thread_status
UpdateThreadStatus(thread_id, status) ==
    /\ variant = "registry"
    /\ thread_metadata[thread_id].exists
    /\ thread_metadata' = [thread_metadata EXCEPT ![thread_id].status = status]
    /\ UNCHANGED <<variant, gatewayVars, errorVars, completionVars, listVars, workerVars, sessionVars, streamVars, toolVars,
                   thread_runs, thread_run, celery_queue, http>>

\* ------------------------------------------- error translation (errors)
\* the exception classes of the stream service, ValueError and other exceptions
ExceptionClasses ==
    {"StreamServiceException", "StreamConnectionException", "StreamTimeoutException",
     "StreamRedisException", "StreamClientDisconnectedException",
     "StreamBusinessException", "ValueError", "RuntimeError", "Exception"}

\* the base class of an exception class
base_class(cls) ==
    CASE cls = "StreamConnectionException" -> "StreamServiceException"
      [] cls = "StreamTimeoutException" -> "StreamConnectionException"
      [] cls = "StreamRedisException" -> "StreamConnectionException"
      [] cls = "StreamClientDisconnectedException" -> "StreamConnectionException"
      [] cls = "StreamBusinessException" -> "StreamServiceException"
      [] OTHER -> "Exception"

\* isinstance(exception, target) for an exception of class cls
RECURSIVE isinstance(_, _)
isinstance(cls, target) ==
    IF cls = target THEN TRUE
    ELSE IF cls = "Exception" THEN FALSE
    ELSE isinstance(base_class(cls), target)

GetHttpStatusBaseFirst(cls) ==
    IF isinstance(cls, "StreamConnectionException") THEN 500
    ELSE IF isinstance(cls, "StreamTimeoutException") THEN 408
    ELSE IF isinstance(cls, "StreamRedisException") THEN 503
    ELSE IF isinstance(cls, "StreamClientDisconnectedException") THEN 499
    ELSE 500

\* _get_http_status_for_exception
get_http_status_for_exception(cls) ==
    IF isinstance(cls, "StreamTimeoutException") THEN 408
    ELSE IF isinstance(cls, "StreamRedisException") THEN 503
    ELSE IF isinstance(cls, "StreamClientDisconnectedException") THEN 499
    ELSE IF isinstance(cls, "StreamConnectionException") THEN 500
    ELSE 500

\* the translation is applied to an exception of class cls
GetHttpStatusForException(cls) ==
    /\ variant = "errors"
    /\ caught_exception' = cls
    /\ status_code' = get_http_status_for_exception(cls)
    /\ UNCHANGED <<variant, gatewayVars, completionVars, listVars, workerVars, sessionVars, streamVars, toolVars,
                   registryVars>>

\* ------------------------------------------- cleanup of a list session
\* pubsub_response and pubsub_control of stream_generator
Handles == {"pubsub_response", "pubsub_control"}

\* the calls of the finally block that can raise (a Redis call each)
CleanupCalls == {"unsubscribe_response", "close_response",
                 "unsubscribe_control", "close_control"}

\* how far the set-up of the session got before the generator left its try block:
\* subscribe on pubsub_response raised, subscribe on pubsub_control raised, or the
\* listener task was started (with nothing opened the finally block runs at once)
SetupStages == {"response", "control", "listener"}

\* stream_generator from its start to the point where it enters the finally block
SessionBody(stage) ==
    /\ variant = "cleanup"
    /\ finally_state = "open"
    /\ handles = [h \in Handles |-> "none"]
    /\ handles' = [h \in Handles |->
                     IF h = "pubsub_response" \/ stage \in {"control", "listener"}
                     THEN "open" ELSE "none"]
    /\ listener_task' = IF stage = "listener" THEN "running" ELSE "none"
    /\ UNCHANGED <<variant, raceVars, serviceVars, handoffVars, stampVars, finally_state, cleanup_failed, listenerVars, completionVars, errorVars,
                   listVars, workerVars, sessionVars, streamVars, toolVars, registryVars>>

\* the calls made on one handle, in the order of the finally block
calls_on(h) ==
    IF h = "pubsub_response" THEN {"unsubscribe_response", "close_response"}
    ELSE {"unsubscribe_control", "close_control"}

\* the finally block reaches the statements for handle h when no call on an
\* earlier handle raised
reaches(h, fail) ==
    h = "pubsub_response" \/ handles["pubsub_response"] = "none"
                          \/ fail \notin calls_on("pubsub_response")

\* a call raises only if it is made
raised_call(fail) ==
    \E h \in Handles : fail \in calls_on(h) /\ handles[h] # "none" /\ reaches(h, fail)

\* the finally block of stream_generator, where the call fail (if any) raises
Finally(fail) ==
    /\ variant = "cleanup"
    /\ finally_state = "open"
    /\ handles' = [h \in Handles |->
                     IF handles[h] = "none" THEN "none"
                     ELSE IF reaches(h, fail) /\ fail \notin calls_on(h) THEN "closed"
                     ELSE "open"]
    /\ listener_task' = IF listener_task = "running" /\ ~raised_call(fail)
                         THEN "cancelled" ELSE listener_task
    /\ cleanup_failed' = IF raised_call(fail) THEN fail ELSE "none"
    /\ finally_state' = IF raised_call(fail) THEN "raised" ELSE "returned"
    /\ UNCHANGED <<variant, raceVars, serviceVars, handoffVars, stampVars, listenerVars, completionVars, errorVars,
                   listVars, workerVars, sessionVars, streamVars, toolVars, registryVars>>

\* ------------------------------------- timestamps of publish_to_thread
\* None as a timestamp
NoTime == 0 - 1

\* the event objects a caller can hand to publish_to_thread: each Optional
\* timestamp unset or set at time 0
AgentExecuteDataInputs ==
    [current_state : {"running", "complete", "error"},
     create_at : {NoTime, 0}, modify_at : {NoTime, 0}, execute_end_at : {NoTime, 0}]

NoEvent ==
    [current_state |-> "", create_at |-> NoTime, modify_at |-> NoTime,
     execute_end_at |-> NoTime]

\* publish_to_thread, the timestamp block: the object data at time t
set_timestamps(data, t) ==
    [data EXCEPT
        !.create_at = IF data.create_at = NoTime THEN t ELSE data.create_at,
        !.modify_at = IF data.modify_at = NoTime THEN t ELSE data.modify_at,
        !.execute_end_at = IF data.current_state \in TerminalStates
                              /\ data.execute_end_at = NoTime
                           THEN t ELSE data.execute_end_at]

\* one publish_to_thread call on the object (the caller may publish it again)
SetTimestamps ==
    /\ variant = "stamp"
    /\ event' = set_timestamps(event, now)
    /\ published_at' = now
    /\ UNCHANGED <<variant, raceVars, serviceVars, handoffVars, cleanupVars, listenerVars, completionVars, errorVars,
                   listVars, workerVars, sessionVars, streamVars, toolVars, registryVars>>

\* --------------------------------- hand-off from replay to tail (handoff)
\* a well-formed stream entry with the given ID
StoredEntry(id) ==
    [id |-> id, event |-> "task_agent_execute", current_state |-> "processing", ok |-> TRUE]

\* the streams a session can find at connect time: 0..MaxHandoffLen entries
StoredStreams == {[k \in 1..n |-> StoredEntry(k)] : n \in 0..MaxHandoffLen}

\* the IDs of a batch fetch_messages returned, in the order returned
Fetched(messages, by) == [k \in 1..Len(messages) |-> [id |-> messages[k].id, by |-> by]]

\* XADD while a session reads the stream
HandoffAppend ==
    /\ variant = "handoff"
    /\ Len(stream) < MaxHandoffLen
    /\ stream' = Append(stream, StoredEntry(Len(stream) + 1))
    /\ UNCHANGED <<variant, raceVars, serviceVars, handoffVars, cleanupVars, listenerVars, stampVars, errorVars,
                   completionVars, toolVars, registryVars, listVars, workerVars, sessionVars,
                   listening_id, since_start, since_business, poll_timer, ka_timer,
                   tc_timer, keep_alive_task, timeout_checker_task, redis_listener_task,
                   result>>

\* stream_sse_events, the replay read: fetch_messages(last_id, block_ms=None), whose
\* next_id is handed to the listener as current_id
ReplayFetch ==
    /\ variant = "handoff"
    /\ stored_at_connect = NoPos
    /\ \E lid \in {<<>>} \cup {<<c>> : c \in 1..MaxCursor} :
        LET got == fetch_messages(stream, lid, FALSE) IN
        /\ last_id' = lid
        /\ fetch_log' = Fetched(got.messages, "replay")
        /\ listening_id' = got.next_id
    /\ stored_at_connect' = Len(stream)
    /\ UNCHANGED <<variant, raceVars, serviceVars, cleanupVars, listenerVars, stampVars, errorVars,
                   completionVars, toolVars, registryVars, listVars, workerVars, pc,
                   last_processed_index, message_queue, listen_control_done, control_signal,
                   frames, disconnected, log_len_at_subscribe, stream,
                   since_start, since_business, poll_timer, ka_timer,
                   tc_timer, keep_alive_task, timeout_checker_task, redis_listener_task,
                   result>>

\* _redis_message_listener, one round that returns entries:
\* fetch_messages(listening_id, block_ms), then listening_id = next_id
ListenerFetch ==
    /\ variant = "handoff"
    /\ stored_at_connect # NoPos
    /\ LET got == fetch_messages(stream, <<listening_id>>, TRUE) IN
        /\ got.messages # <<>>
        /\ fetch_log' = fetch_log \o Fetched(got.messages, "listener")
        /\ listening_id' = got.next_id
    /\ UNCHANGED <<variant, raceVars, serviceVars, stored_at_connect, cleanupVars, listenerVars, stampVars, errorVars,
                   completionVars, toolVars, registryVars, listVars, workerVars, sessionVars,
                   stream, since_start, since_business, poll_timer, ka_timer,
                   tc_timer, keep_alive_task, timeout_checker_task, redis_listener_task,
                   result>>

\* ------------------------------------ the global thread service (service)
Requests == 1..MaxRequests

\* _thread_service = None
NoService == [created |-> FALSE, redis |-> FALSE, initialized |-> FALSE]

\* AgentThreadService(): redis is None and initialized is False
AgentThreadService == [created |-> TRUE, redis |-> FALSE, initialized |-> FALSE]

\* what a request holds when get_thread_service returns the global to it
hand_over(service) == IF service.initialized THEN "initialized" ELSE "uninitialized"

\* get_thread_service: the global is returned if it is set; else it is set to a new
\* service first and initialize() runs on it. get_async_redis_client has no await
\* of its own, so the call runs to its end without giving up the event loop. If
\* initialize() raises, the request gets a 500 and the global stays as it is.
GetThreadService(r, ok) ==
    /\ variant = "service"
    /\ request_pc[r] = "start"
    /\ IF thread_service.created
       THEN /\ handed' = [handed EXCEPT ![r] = hand_over(thread_service)]
            /\ request_pc' = [request_pc EXCEPT ![r] = "returned"]
            /\ UNCHANGED thread_service
       ELSE IF ok
       THEN /\ thread_service' = [AgentThreadService EXCEPT !.redis = TRUE,
                                                            !.initialized = TRUE]
            /\ handed' = [handed EXCEPT ![r] = hand_over(thread_service')]
            /\ request_pc' = [request_pc EXCEPT ![r] = "returned"]
       ELSE /\ thread_service' = AgentThreadService
            /\ request_pc' = [request_pc EXCEPT ![r] = "failed"]
            /\ UNCHANGED handed
    /\ UNCHANGED <<variant, raceVars, cleanupVars, listenerVars, stampVars, handoffVars, errorVars,
                   completionVars, toolVars, registryVars, listVars, workerVars, sessionVars,
                   streamVars>>

\* --------------------- execute_task against update_thread_status (race)
\* AgentThreadService.execute_task, one step of the call: generate_uuid(), then
\* the run record and the run-list, then GET of the metadata, then SET of the
\* metadata with run_count and last_run_id changed, then the task is sent
ExecuteTaskStep ==
    /\ variant = "race"
    /\ exec_pc \notin {"raised", "done"}
    /\ CASE exec_pc = "start" ->
              IF generate_uuid_raises(<<>>)
              THEN /\ exec_pc' = "raised"
                   /\ UNCHANGED <<exec_metadata, registryVars, next_uuid>>
              ELSE /\ exec_pc' = "get_metadata"
                   /\ thread_run' = thread_run \cup {<<RaceThread, next_uuid>>}
                   /\ thread_runs' = [thread_runs EXCEPT ![RaceThread] =
                          FirstN(<<next_uuid>> \o thread_runs[RaceThread], RunListCap)]
                   /\ UNCHANGED <<exec_metadata, thread_metadata, celery_queue, http,
                                  next_uuid>>
         [] exec_pc = "get_metadata" ->
              /\ exec_metadata' = thread_metadata[RaceThread]
              /\ exec_pc' = "set_metadata"
              /\ UNCHANGED <<registryVars, next_uuid>>
         [] exec_pc = "set_metadata" ->
              /\ thread_metadata' =
                     IF exec_metadata.exists
                     THEN [thread_metadata EXCEPT ![RaceThread] =
                             [exec_metadata EXCEPT !.run_count = exec_metadata.run_count + 1,
                                                   !.last_run_id = next_uuid]]
                     ELSE thread_metadata
              /\ exec_pc' = "send_task"
              /\ UNCHANGED <<exec_metadata, thread_runs, thread_run, celery_queue, http,
                             next_uuid>>
         [] exec_pc = "send_task" ->
              /\ celery_queue' = Append(celery_queue, <<RaceThread, next_uuid>>)
              /\ next_uuid' = next_uuid + 1
              /\ exec_pc' = "done"
              /\ UNCHANGED <<exec_metadata, thread_metadata, thread_runs, thread_run, http>>
    /\ UNCHANGED <<variant, upd_pc, upd_metadata, upd_status, cleanupVars, listenerVars,
                   stampVars, handoffVars, serviceVars, errorVars, completionVars, toolVars,
                   listVars, w_pc, w_outcome, w_published, pub, sessionVars, streamVars>>

\* update_thread_status: get_thread_metadata (GET)
UpdateThreadStatusGet(status) ==
    /\ variant = "race"
    /\ upd_pc = "start"
    /\ upd_metadata' = thread_metadata[RaceThread]
    /\ upd_status' = status
    /\ upd_pc' = IF thread_metadata[RaceThread].exists THEN "set" ELSE "done"
    /\ UNCHANGED <<variant, exec_pc, exec_metadata, cleanupVars, listenerVars,
                   stampVars, handoffVars, serviceVars, errorVars, completionVars, toolVars,
                   registryVars, listVars, workerVars, sessionVars, streamVars>>

\* update_thread_status: SET of the record it read, with the new status
UpdateThreadStatusSet ==
    /\ variant = "race"
    /\ upd_pc = "set"
    /\ thread_metadata' = [thread_metadata EXCEPT ![RaceThread] =
                              [upd_metadata EXCEPT !.status = upd_status]]
    /\ upd_pc' = "done"
    /\ UNCHANGED <<variant, exec_pc, exec_metadata, upd_metadata, upd_status, cleanupVars,
                   listenerVars, stampVars, handoffVars, serviceVars, errorVars,
                   completionVars, toolVars, thread_runs, thread_run, celery_queue, http,
                   listVars, workerVars, sessionVars, streamVars>>

\* ------------------------------------------------------------ specification
Init ==
    /\ variant \in {"list", "stream", "tools", "registry", "errors", "decode", "worker",
                    "cleanup", "listener", "stamp", "handoff",
                    "service", "race"}
    /\ IF variant = "decode" THEN responses \in StoredLogs ELSE responses = <<>>
    /\ IF variant = "handoff" THEN stream \in StoredStreams ELSE stream = <<>>
    /\ pubsub_response = <<>>
    /\ pubsub_control = <<>>
    /\ subscribed = {}
    /\ w_pc = "run_job"
    /\ w_outcome = ""
    /\ w_published = 0
    /\ next_uuid = 1
    /\ pub = NoPub
    /\ pc = "init"
    /\ last_id = <<>>
    /\ last_processed_index = 0 - 1
    /\ message_queue = <<>>
    /\ listen_control_done = FALSE
    /\ control_signal = ""
    /\ frames = <<>>
    /\ disconnected = FALSE
    /\ log_len_at_subscribe = 0 - 1
    /\ listening_id = STREAM_START_ID
    /\ since_start = 0
    /\ since_business = 0
    /\ poll_timer = 0
    /\ ka_timer = 0
    /\ tc_timer = 0
    /\ keep_alive_task = "none"
    /\ timeout_checker_task = "none"
    /\ redis_listener_task = "none"
    /\ result = ""
    /\ now = 0
    /\ tool_pc = [t \in Tools |-> "execute"]
    /\ tool_pub = [t \in Tools |-> NoToolPub]
    /\ tool_returned = [t \in Tools |-> <<>>]
    /\ RegistryInit
    /\ control_published = <<>>
    /\ notified = 0
    /\ save_result = ""
    /\ in_except = FALSE
    /\ caught_exception = ""
    /\ status_code = 0
    /\ handles = [h \in Handles |-> "none"]
    /\ listener_task = "none"
    /\ finally_state = "open"
    /\ cleanup_failed = "none"
    /\ listen_failed = {}
    /\ IF variant = "stamp" THEN event \in AgentExecuteDataInputs ELSE event = NoEvent
    /\ published_at = NoTime
    /\ fetch_log = <<>>
    /\ stored_at_connect = NoPos
    /\ thread_service = NoService
    /\ request_pc = [r \in Requests |-> "start"]
    /\ handed = [r \in Requests |-> "nothing"]
    /\ exec_pc = "start"
    /\ exec_metadata = NoMetadata
    /\ upd_pc = "start"
    /\ upd_metadata = NoMetadata
    /\ upd_status = ""

NextList ==
    \/ RunJobPublish
    \/ PublishWrite
    \/ PublishNotify
    \/ RunJobEnds
    \/ HandleFlowCompletion
    \/ PublishControlSignal
    \/ PublishFails
    \/ FlowInterrupted
    \/ Connect
    \/ CheckConnected
    \/ SubscribeResponse
    \/ SubscribeControl
    \/ ListenResponse
    \/ ListenControl
    \/ MainCheckDisconnected
    \/ MainKeepAlive
    \/ MainDequeue
    \/ StreamCancelled
    \/ \E l \in Listeners : ListenerRaises(l)

NextStream ==
    \/ StreamAppend
    \/ StreamConnect
    \/ AwaitPoll
    \/ Replay
    \/ KeepAliveTick
    \/ TimeoutCheck
    \/ ListenerRead
    \/ ListenerReadFails
    \/ ListenerDisconnected
    \/ MainYield
    \/ MainDisconnected
    \/ Tick

NextTools ==
    \/ \E t \in Tools : ToolExecute(t)
    \/ \E t \in Tools : ToolPublishScan(t)
    \/ \E t \in Tools : ToolPublishWrite(t)
    \/ \E t \in Tools : ToolPublishLlen(t)
    \/ TimePasses

NextRegistry ==
    \/ InitiateThread
    \/ \E t \in ThreadIds : ExecuteAgentTask(t)
    \/ \E t \in ThreadIds : StreamThreadEvents(t)
    \/ \E t \in ThreadIds : StreamLlmContent(t)
    \/ \E t \in ThreadIds, status \in {"active", "inactive", "archived"} :
            UpdateThreadStatus(t, status)

NextErrors == \E cls \in ExceptionClasses : GetHttpStatusForException(cls)

NextStamp == SetTimestamps

NextHandoff == HandoffAppend \/ ReplayFetch \/ ListenerFetch

NextRace ==
    \/ ExecuteTaskStep
    \/ \E status \in {"inactive", "archived"} : UpdateThreadStatusGet(status)
    \/ UpdateThreadStatusSet

NextService == \E r \in Requests, ok \in BOOLEAN : GetThreadService(r, ok)

NextCleanup ==
    \/ \E stage \in SetupStages : SessionBody(stage)
    \/ \E fail \in CleanupCalls \cup {"none"} : Finally(fail)

Next ==
    NextList \/ NextStream \/ ClientDisconnects \/ NextTools \/ NextRegistry \/ NextErrors
    \/ NextCleanup \/ NextStamp \/ NextHandoff \/ NextService \/ NextRace

Spec == Init /\ [][Next]_vars

\* The asyncio event loop runs every task that is ready, sleeps end, Redis delivers
\* what was published, the worker finishes a publish it started, and a client that
\* is going to connect does connect. The client never has to disconnect, the writer
\* never has to append, and run_job never has to end.
Fairness ==
    /\ WF_vars(PublishWrite)
    /\ WF_vars(PublishNotify)
    /\ WF_vars(HandleFlowCompletion)
    /\ WF_vars(PublishControlSignal)
    /\ WF_vars(FlowInterrupted)
    /\ WF_vars(Connect)
    /\ WF_vars(CheckConnected)
    /\ WF_vars(SubscribeResponse)
    /\ WF_vars(SubscribeControl)
    /\ WF_vars(ListenResponse)
    /\ WF_vars(ListenControl)
    /\ WF_vars(MainCheckDisconnected)
    /\ WF_vars(MainKeepAlive)
    /\ WF_vars(MainDequeue)
    /\ WF_vars(StreamConnect)
    /\ WF_vars(AwaitPoll)
    /\ WF_vars(Replay)
    /\ WF_vars(KeepAliveTick)
    /\ WF_vars(TimeoutCheck)
    /\ WF_vars(ListenerRead)
    /\ WF_vars(ListenerDisconnected)
    /\ WF_vars(MainYield)
    /\ WF_vars(MainDisconnected)
    /\ WF_vars(Tick)

FairSpec == Spec /\ Fairness

\* ------------------------------------------------------------------ claims
IsBusiness(f) == f.kind = "task_agent_execute"

IsStatus(f) == f.kind = "status"

TerminalStatuses == {"completed", "failed", "stopped", "error"}

IsTerminalStatus(f) == IsStatus(f) /\ f.val \in TerminalStatuses

HasPosition(f) == f.pos # NoPos

C2_NothingAtOrBeforeCursor ==
    last_id # <<>> =>
        \A i \in 1..Len(frames) : HasPosition(frames[i]) => frames[i].pos > last_id[1]

\* a resumed connection over a log that holds an entry at the cursor has yielded
\* the entries after it, one of them in the tail
C2_Witness ==
    /\ last_id # <<>>
    /\ \/ variant = "list" /\ Len(responses) > last_id[1] + 1
       \/ variant = "stream" /\ Len(stream) > last_id[1]
    /\ \E i \in 1..Len(frames) : HasPosition(frames[i])
    /\ pc \in {"main", "wait", "tail", "ended"}

\* C3: once a business event with current_state complete or error has been
\* yielded, at most one more frame is yielded and that frame is a status frame.
C3_TerminalEventEndsStream ==
    \A i \in 1..Len(frames) :
        (IsBusiness(frames[i]) /\ frames[i].val \in TerminalStates) =>
            /\ Len(frames) <= i + 1
            /\ Len(frames) = i + 1 => IsStatus(frames[i + 1])

\* C4: a session that connects after the worker has appended its FLOW_COMPLETION
\* event and published its control signal eventually yields a terminal status
\* frame and closes (or the client goes away first).
C4_LateJoinerTerminates ==
    (variant = "list" /\ pc = "init" /\ w_pc = "done")
        ~> \/ disconnected
           \/ pc = "ended" /\ frames # <<>> /\ IsTerminalStatus(frames[Len(frames)])

\* C5: in a subscribed thread-mode session, every event the worker appended before
\* it published the control signal has been yielded when the status frame of the
\* control signal is yielded.
C5_EventsBeforeControlStatus ==
    control_signal # "" =>
        \A idx \in 0..(Len(responses) - 1) :
            (idx >= log_len_at_subscribe /\ idx > initial_index(last_id)) =>
                \E i \in 1..Len(frames) : IsBusiness(frames[i]) /\ frames[i].pos = idx

\* C6: a session that received a control signal has yielded exactly one status
\* frame, carrying stopped for STOP, completed for END_STREAM and failed for
\* ERROR, as its last frame, and has terminated.
C6_ControlSignalStatus ==
    control_signal # "" =>
        /\ pc = "ended"
        /\ Cardinality({i \in 1..Len(frames) : IsStatus(frames[i])}) = 1
        /\ IsStatus(frames[Len(frames)])
        /\ control_signal = "STOP" => frames[Len(frames)].val = "stopped"
        /\ control_signal = "END_STREAM" => frames[Len(frames)].val = "completed"
        /\ control_signal = "ERROR" => frames[Len(frames)].val = "failed"

\* a session that yielded events and then handled the STOP of a cancelled run
C6_Witness ==
    /\ control_signal = "STOP"
    /\ w_outcome = "cancelled"
    /\ \E i \in 1..Len(frames) : IsBusiness(frames[i])

\* C7: a terminal status frame is the last frame of its connection, and the
\* session has ended once it is yielded.
C7_TerminalStatusIsLast ==
    \A i \in 1..Len(frames) :
        IsTerminalStatus(frames[i]) => (i = Len(frames) /\ pc = "ended")

\* the paths that yield a terminal status frame: a control signal after events and
\* keep_alive frames, and a failed read of the list
C7_Witness ==
    /\ pc = "ended"
    /\ Len(frames) >= 3
    /\ IsTerminalStatus(frames[Len(frames)])
    /\ \E i \in 1..Len(frames) : frames[i].kind = "keep_alive"
    /\ \E i \in 1..Len(frames) : IsBusiness(frames[i])

\* C8: a tailing session whose client stays connected and that has read no
\* business event for more than timeout_minutes eventually ends with
\* StreamTimeoutException.
C8_BusinessTimeoutEndsSession ==
    (variant = "stream" /\ pc = "tail" /\ since_business > timeout_minutes)
        ~> \/ pc = "ended" /\ result = "StreamTimeoutException"
           \/ disconnected
           \/ since_business <= timeout_minutes

\* C9: a session whose connection is older than connection_max_duration_minutes
\* eventually ends with StreamTimeoutException (or the client goes away first).
C9_ConnectionCeilingEndsSession ==
    (variant = "stream" /\ pc \in {"replay", "tail"}
        /\ since_start > connection_max_duration_minutes)
        ~> \/ pc = "ended" /\ result = "StreamTimeoutException"
           \/ disconnected

\* a log entry that parses to a task_agent_execute event
BusinessEntry(e) == e.ok /\ e.event = "task_agent_execute"

\* this step reads a business event from the log, in the replay or in the listener
BusinessEventRead ==
    \/ /\ pc = "replay"
       /\ pc' = "tail"
       /\ LET messages == fetch_messages(stream, last_id, FALSE).messages
          IN  \E k \in 1..Len(messages) : BusinessEntry(messages[k])
    \/ /\ pc = "tail"
       /\ listening_id' # listening_id
       /\ LET messages == fetch_messages(stream, <<listening_id>>, TRUE).messages
          IN  \E k \in 1..Len(messages) : BusinessEntry(messages[k])

\* C10: the business-inactivity clock restarts only in a step that reads a business
\* event from the log; otherwise its age only grows, and only in a step in which time
\* passes and no frame is produced or received.
C10_BusinessClockOnlyByBusinessEvent ==
    [][/\ since_business' < since_business => BusinessEventRead
       /\ since_business' > since_business =>
            /\ since_business' = since_business + 1
            /\ UNCHANGED <<frames, message_queue, listening_id>>]_vars

\* the session produced keep_alive frames and received a keep_alive entry and an
\* unparsable entry from the log while the clock kept running
C10_Witness ==
    /\ pc = "tail"
    /\ since_business > timeout_minutes
    /\ \E i \in 1..Len(frames) : frames[i].kind = "error"
    /\ \E i \in 1..Len(frames) : frames[i].kind = "keep_alive" /\ HasPosition(frames[i])
    /\ \E i \in 1..Len(frames) : frames[i].kind = "keep_alive" /\ ~HasPosition(frames[i])

WaitingFrame == Frame("waiting", NoPos, "")

\* C11: a session that finds no log yields exactly one waiting frame and nothing else
\* while it waits, waits no longer than timeout_minutes (plus one polling interval)
\* and, if the log was never created, ends with StreamTimeoutException having
\* yielded only the waiting frame; a session that finds the log at connect time
\* yields no waiting frame.
C11_WaitingThenTimeout ==
    /\ [](pc = "await_log" =>
            /\ frames = <<WaitingFrame>>
            /\ since_start < timeout_minutes + stream_check_interval_seconds)
    /\ []((variant = "stream" /\ pc = "ended" /\ stream = <<>>) =>
            /\ result = "StreamTimeoutException"
            /\ frames = <<WaitingFrame>>)
    /\ []((variant = "stream" /\ pc = "replay") =>
            frames \in {<<>>, <<WaitingFrame>>})
    /\ [][StreamConnect =>
            IF stream = <<>> THEN frames' = <<WaitingFrame>> /\ pc' = "await_log"
            ELSE frames' = <<>> /\ pc' = "replay"]_vars

\* the log was never created: the session has ended with the timeout after the one
\* waiting frame
C11_Witness ==
    /\ variant = "stream"
    /\ pc = "ended"
    /\ stream = <<>>
    /\ result = "StreamTimeoutException"
    /\ frames = <<WaitingFrame>>
    /\ since_start >= timeout_minutes

\* C12: a tailing session whose reader task failed with StreamRedisException
\* eventually ends with that error (or the client goes away first).
C12_ReaderErrorEndsSession ==
    (variant = "stream" /\ pc = "tail" /\ redis_listener_task = "StreamRedisException")
        ~> \/ pc = "ended" /\ result = "StreamRedisException"
           \/ disconnected


\* no other tool call has published anything: the two publishes of t are sequential
\* and undisturbed
Alone(t) == \A u \in Tools \ {t} : tool_pc[u] = "execute"

\* C13: a publish with the UUID of a stored entry leaves the length of the list
\* unchanged, overwrites the entry that carries the UUID with the new payload and
\* leaves every other entry alone; it returns the index of that entry, which for
\* sequential publishes is the index the first publish returned.
C13_UpsertByUuid ==
    /\ [][\A t \in Tools :
            (ToolPublishWrite(t) /\ \E i \in 1..Len(responses) :
                                        responses[i].uuid = tool_pub[t].uuid) =>
                /\ Len(responses') = Len(responses)
                /\ \A i \in 1..Len(responses) :
                    IF responses[i].uuid = tool_pub[t].uuid
                    THEN /\ responses'[i].uuid = tool_pub[t].uuid
                         /\ responses'[i].current_state = tool_pub[t].current_state
                         /\ Len(tool_returned'[t]) = Len(tool_returned[t]) + 1
                         /\ tool_returned'[t][Len(tool_returned'[t])] = i - 1
                    ELSE responses'[i] = responses[i]]_vars
    /\ [](\A t \in Tools :
            (tool_pc[t] = "done" /\ Alone(t)) =>
                /\ Len(tool_returned[t]) = 2
                /\ tool_returned[t][1] = tool_returned[t][2]
                /\ responses[tool_returned[t][2] + 1].uuid = tool_pub[t].uuid
                /\ responses[tool_returned[t][2] + 1].current_state = "complete")

\* a tool call has published init and complete under one UUID, one after the other
C13_Witness ==
    \E t \in Tools :
        /\ tool_pc[t] = "done"
        /\ Alone(t)
        /\ Len(responses) = 1
        /\ tool_returned[t] = <<0, 0>>
        /\ responses[1].current_state = "complete"

\* C14: the create_at of a stored entry never changes: a re-publish of its UUID
\* keeps the create_at of the first publish.
C14_CreateAtPreserved ==
    [][\A i \in 1..Len(responses) :
            i <= Len(responses') => responses'[i].create_at = responses[i].create_at]_vars

\* C15: no two entries of the list carry the same UUID.
C15_UuidUnique ==
    \A i, j \in 1..Len(responses) :
        i # j => responses[i].uuid # responses[j].uuid

\* two tool calls re-publish concurrently: both have scanned the list for their
\* UUID and neither has written yet
C15_Witness ==
    /\ Len(responses) = 2
    /\ \E t, u \in Tools :
        /\ t # u
        /\ tool_pc[t] = "lset_rpush" /\ tool_pub[t].current_state = "complete"
        /\ tool_pc[u] = "lset_rpush" /\ tool_pub[u].current_state = "complete"

\* a metadata record for the thread exists and its status is active
Active(t) == thread_metadata[t].exists /\ thread_metadata[t].status = "active"

C18_NoStreamForUnknownThread ==
    [][\A t \in ThreadIds :
        ((StreamThreadEvents(t) \/ StreamLlmContent(t)) /\ ~Active(t)) =>
            (http'.status = 404 /\ ~http'.opened)]_vars

\* C19: an execute request for a thread that is unknown or not active is answered
\* 404 and changes neither the run records, the run-list, the metadata nor the
\* work queue.
C19_ExecuteUnknownThread ==
    [][\A t \in ThreadIds :
        (ExecuteAgentTask(t) /\ ~Active(t)) =>
            /\ http'.status = 404
            /\ UNCHANGED <<thread_metadata, thread_runs, thread_run, celery_queue>>]_vars

\* an execute request for a thread without metadata record got 404
C19_Witness ==
    /\ http.op = "execute"
    /\ http.status = 404
    /\ ~thread_metadata[http.thread].exists
    /\ thread_run = {}
    /\ celery_queue = <<>>

\* C20: create_thread returns a thread ID that had no record before and leaves an
\* active metadata record with run_count 0 for it, so that validate_thread is true
\* for the returned ID.
C20_CreateThread ==
    [][InitiateThread =>
        /\ http'.status = 200
        /\ http'.thread \in ThreadIds
        /\ ~thread_metadata[http'.thread].exists
        /\ thread_metadata'[http'.thread] = NewMetadata
        /\ validate_thread(thread_metadata', http'.thread)]_vars

\* C21: the translation gives 408 for a StreamTimeoutException, 503 for a
\* StreamRedisException, 499 for a StreamClientDisconnectedException and 500 for
\* every other exception, a plain StreamConnectionException included: each
\* subclass gets its own code, not the code of its base class.
C21_ErrorToStatus ==
    caught_exception # "" =>
        status_code = CASE caught_exception = "StreamTimeoutException" -> 408
                        [] caught_exception = "StreamRedisException" -> 503
                        [] caught_exception = "StreamClientDisconnectedException" -> 499
                        [] OTHER -> 500

\* a subclass of StreamConnectionException was translated to its own code
C21_Witness == caught_exception = "StreamClientDisconnectedException" /\ status_code = 499

\* C22: the log of a thread never holds more than max_stream_length entries: an
\* append to a full log leaves the last max_stream_length entries.
C22_BoundedRetention == Len(responses) <= max_stream_length

KeepAliveFrame == Frame("keep_alive", NoPos, "")

\* C23: a keep-alive tick that finds the message queue full leaves the queue as it
\* is, ends neither the session nor the ticker, and starts the next sleep; a tick
\* that finds space puts a keep_alive frame at the end of the queue.
C23_KeepAliveDroppedWhenFull ==
    [][KeepAliveTick =>
        /\ IF Len(message_queue) >= message_queue_max_size
           THEN message_queue' = message_queue
           ELSE message_queue' = Append(message_queue, KeepAliveFrame)
        /\ keep_alive_task' = "running"
        /\ ka_timer' = keep_alive_interval
        /\ pc' = pc
        /\ result' = result
        /\ frames' = frames]_vars

\* the queue is full, its last element is a business event that was queued a whole
\* keep-alive interval ago, and the ticker has started its next sleep: its tick
\* found the queue full
C23_Witness ==
    /\ pc = "tail"
    /\ keep_alive_task = "running"
    /\ Len(message_queue) = message_queue_max_size
    /\ is_business_message(message_queue[Len(message_queue)].kind)
    /\ since_business >= keep_alive_interval
    /\ ka_timer = keep_alive_interval

\* C24: when a tailing session has handled a new_response notification, every
\* entry of the log after its resume cursor has been sent to the client with the
\* content it has now: an entry overwritten by a re-publish of its UUID is sent
\* again, also when the session had already sent the entry at that index.
C24_RepublishDelivered ==
    [][(MainDequeue /\ Head(message_queue).type = "new_response" /\ pc' = "main") =>
        \A i \in 1..Len(responses) :
            i - 1 > initial_index(last_id) =>
                \E k \in 1..Len(frames') :
                    /\ frames'[k].pos = i - 1
                    /\ frames'[k].val = responses[i].current_state]_vars

\* C26: an entry that cannot be decoded costs the client that entry only. In the
\* list variant a session that has replayed a stored log has sent every well-formed
\* entry after its cursor; in the stream variant the replay sends one frame per
\* entry read, an error frame for an undecodable one, and goes on to the tail.
C26_ParseErrorSkipped ==
    /\ []((variant = "decode" /\ pc # "init") =>
            \A i \in 1..Len(responses) :
                (responses[i].ok /\ i - 1 > initial_index(last_id)) =>
                    \E k \in 1..Len(frames) : frames[k].pos = i - 1)
    /\ [][(Replay /\ ~disconnected) =>
            /\ pc' = "tail"
            /\ LET read == fetch_messages(stream, last_id, FALSE).messages IN
               frames' = YieldAll(frames,
                            [k \in 1..Len(read) |->
                                IF read[k].ok
                                THEN Frame(read[k].event, read[k].id, read[k].current_state)
                                ELSE Frame("error", NoPos, "parse_error")])]_vars

IsFlowCompletion(entry) == entry.ok /\ entry.execute_type = "flow_completion"

FlowCompletionEntries == {i \in 1..Len(responses) : IsFlowCompletion(responses[i])}

\* C27: a failing save_task_agent_result call does not stop the publish: the
\* publish goes on to its write, and a worker that has finished the publish of an
\* event whose save failed has the event in the log and has published the
\* notification for it.
C27_SaveFailureSwallowed ==
    /\ [][(save_result' = "failed" /\ (RunJobPublish \/ HandleFlowCompletion \/ FlowInterrupted)) =>
            /\ w_pc' = "lset_rpush"
            /\ pub'.index = find_uuid(responses, pub'.uuid, 0)]_vars
    /\ [][(save_result = "failed" /\ PublishWrite) =>
            \E i \in 1..Len(responses') :
                /\ responses'[i].uuid = pub.uuid
                /\ responses'[i].current_state = pub.current_state]_vars
    /\ [][(save_result = "failed" /\ PublishNotify) => notified' = notified + 1]_vars

\* the save of the FLOW_COMPLETION event failed, and the event is in the log, its
\* notification and the control signal are published
C27_Witness ==
    /\ save_result = "failed"
    /\ w_pc = "done"
    /\ ~in_except
    /\ FlowCompletionEntries # {}
    /\ notified >= 1

\* C28: whenever a control signal has been published, the log holds a
\* FLOW_COMPLETION event of the run.
C28_ControlAfterTerminalEvent ==
    control_published # <<>> => FlowCompletionEntries # {}

\* the worker got a failure in the try of handle_flow_completion and has
\* published STOP from the except branch
C28_Witness ==
    /\ variant = "worker"
    /\ w_outcome = "ok"
    /\ control_published = <<"STOP">>

\* C29: a worker that has left handle_flow_completion has published one control
\* signal, the one of the outcome of the job task, and the log holds one
\* FLOW_COMPLETION event; at no time are there more.
C29_SignalMatchesOutcome ==
    /\ Len(control_published) <= 1
    /\ Cardinality(FlowCompletionEntries) <= 1
    /\ w_pc = "done" =>
        /\ control_published = <<flow_completion_signal(w_outcome)>>
        /\ Cardinality(FlowCompletionEntries) = 1

\* C25: the reader loses no entry to a full queue: in the tail every well-formed
\* entry after the resume cursor that the session has read from the stream is
\* either sent to the client or waiting in the message queue.
C25_ReaderNeverDrops ==
    pc = "tail" =>
        \A k \in 1..Len(stream) :
            (/\ stream[k].ok
             /\ stream[k].id > actual_start_id(last_id)
             /\ stream[k].id <= listening_id) =>
                \/ \E i \in 1..Len(frames) : frames[i].pos = stream[k].id
                \/ \E i \in 1..Len(message_queue) : message_queue[i].pos = stream[k].id

C31_CleanupComplete ==
    (variant = "cleanup" /\ finally_state # "open") =>
        /\ listener_task # "running"
        /\ \A h \in Handles :
              cleanup_failed \notin calls_on(h) => handles[h] \in {"none", "closed"}

\* C32: in AWAIT_LOG a polling round that runs after the client has disconnected
\* detects the disconnect: it does not start another sleep of the polling loop,
\* and if it ends the session the result is StreamClientDisconnectedException,
\* not the timeout of the wait.
C32_DisconnectDetectedInAwaitLog ==
    [][(variant = "stream" /\ pc = "await_log" /\ disconnected) =>
          /\ ~(pc' = "await_log" /\ poll_timer' > poll_timer)
          /\ pc' = "ended" => result' = "StreamClientDisconnectedException"]_vars

\* C33: once a subscription of a thread-mode session has failed (a listener
\* coroutine has raised), the main loop does not go round with a keep_alive frame
\* again: the wait on the queue is never answered by the 30 s timeout.
C33_ListenerFailureEndsSession ==
    [][~(/\ variant = "listener"
         /\ listen_failed # {}
         /\ pc = "wait"
         /\ pc' = "main"
         /\ frames' # <<>>
         /\ frames'[Len(frames')].kind = "keep_alive")]_vars

\* C34: after a publish the modify_at of the event object is the time of that
\* publish, whatever modify_at the object carried before.
C34_ModifyAtIsPublishTime ==
    (variant = "stamp" /\ published_at # NoTime) => event.modify_at = published_at

C36_EventInSubscribeWindowYielded ==
    (/\ variant = "list"
     /\ pc \in {"main", "wait"}
     /\ ~disconnected
     /\ w_pc = "done"
     /\ pubsub_response = <<>>
     /\ pubsub_control = <<>>
     /\ message_queue = <<>>) =>
        \A idx \in 0..(Len(responses) - 1) :
            (idx < log_len_at_subscribe /\ idx > initial_index(last_id)) =>
                \E i \in 1..Len(frames) : IsBusiness(frames[i]) /\ frames[i].pos = idx

\* the IDs of the stream entries after the connect cursor up to the read position
IdsUpTo(s, cursor, upto) ==
    LET sel == SelectSeq(s, LAMBDA e : e.id > cursor /\ e.id <= upto)
    IN  [k \in 1..Len(sel) |-> sel[k].id]

\* C37: at every moment after the replay read, what the session has fetched is
\* exactly the entries with an ID greater than the connect cursor and up to its
\* read position listening_id, each once and in ID order, whether fetched by the
\* replay range read or by a blocking read of the listener; the entries of the
\* replay come first.
C37_HandoffFetchesEachOnce ==
    (variant = "handoff" /\ stored_at_connect # NoPos) =>
        /\ [k \in 1..Len(fetch_log) |-> fetch_log[k].id]
              = IdsUpTo(stream, actual_start_id(last_id), listening_id)
        /\ listening_id >= actual_start_id(last_id)
        /\ \A i, j \in 1..Len(fetch_log) :
              (i < j /\ fetch_log[j].by = "replay") => fetch_log[i].by = "replay"

\* a stream that held more than stream_read_count entries after the cursor at
\* connect time has been fetched completely, partly by the replay and partly by
\* the listener
C37_Witness ==
    /\ variant = "handoff"
    /\ last_id # <<>>
    /\ stored_at_connect - actual_start_id(last_id) >= stream_read_count
    /\ listening_id = Len(stream)
    /\ \E i, j \in 1..Len(fetch_log) :
          fetch_log[i].by = "replay" /\ fetch_log[j].by = "listener"

\* C38: the service get_thread_service has returned to a request is one whose
\* initialize() had completed successfully when it was returned.
C38_ServiceHandedInitialized ==
    variant = "service" =>
        \A r \in Requests : request_pc[r] = "returned" => handed[r] = "initialized"

====
